---- MODULE Spec2Model ----
(***************************************************************************)
(* A model of the ballchasing.com API client (src/ballchasing).            *)
(*                                                                         *)
(* Durations are integers in microseconds, so that every entry of the      *)
(* tier table (3600/1000 s ... 1/64 s) is exact.  A URL is a record        *)
(* [base, path, query, after]: base = "" stands for a text that starts     *)
(* with "/", an endpoint relative to the API's base URL.  The HTTP         *)
(* transport (aiohttp) and the schema validator (pydantic) are outside     *)
(* the repository: the transport is the environment, which answers each    *)
(* attempt with a response, a ConnectionError or a TimeoutError, and a     *)
(* validated `next` field is taken to be usable as the URL text it was     *)
(* parsed from.                                                            *)
(***************************************************************************)
EXTENDS Integers, Sequences, FiniteSets, TLC

VARIABLES
    \* ---- Api object (api.py 56-71)
    steam_name, steam_id, patreon_type, rate_limit_count,
    sleep_time_on_rate_limit,
    \* ---- the sleep_time_on_rate_limit the constructor was given
    given_sleep_time,
    \* ---- the running Api._request call (api.py 73-130)
    pc, url, method, params, retries, result,
    \* ---- the facade operation that awaits the request
    op,
    \* ---- what the transport and the event loop saw of the running call
    attempts, seen429, consec, last, sent, slept, count0, calls,
    \* ---- a comparison of values with Replay.__eq__ and __hash__
    \* (models.py 208-225)
    eq_self, eq_other, eq_result,
    \* ---- the listing generators (api.py 237-343, 436-493, 555-570):
    \* the server's content, the frames of the running generators, the
    \* items handed to the consumer, and the page requests of the operation
    world, stack, yielded, pages,
    \* ---- the directories and files that download_group makes (api.py
    \* 572-581, 592-609)
    disk

apiVars == <<steam_name, steam_id, patreon_type, rate_limit_count,
             sleep_time_on_rate_limit, given_sleep_time>>
reqVars == <<pc, url, method, params, retries, result>>
obsVars == <<attempts, seen429, consec, last, sent, slept, count0, calls>>
eqVars == <<eq_self, eq_other, eq_result>>
listVars == <<world, stack, yielded, pages, disk>>
\* What a step of _request leaves alone, and what a step of a
\* single-request operation leaves alone besides the client.
callerVars == <<op, eqVars, listVars>>
otherVars == <<eqVars, listVars>>
vars == <<apiVars, reqVars, obsVars, op, eqVars, listVars>>

----------------------------------------------------------------------------
\* Bounds of the model.

\* 429 responses the server gives to one client.
Max429 == 3
\* Page requests of one listing against a server of kind "pages".
MaxPages == 3
\* Consecutive connection failures of one page request.
MaxPageFailures == 1
\* _request calls counted on one client.
MaxCalls == 2

----------------------------------------------------------------------------
\* Values.

\* Python values carry their type, so that any two can be compared.
None == [kind |-> "None"]
Str(s) == [kind |-> "str", v |-> s]
Bool(b) == [kind |-> "bool", v |-> b]
PInt(n) == [kind |-> "int", v |-> n]
List(q) == [kind |-> "list", v |-> q]

Min(a, b) == IF a <= b THEN a ELSE b

DEFAULT_URL == "https://ballchasing.com/api"

Url(base, path, query, after) ==
    [base |-> base, path |-> path, query |-> query, after |-> after]

\* No keyword argument / an empty dict.
Empty == [k \in {} |-> None]

Endpoint(path) == Url("", path, Empty, 0)

\* A call of _request as the facade makes it: the url or endpoint, the
\* method and the keyword arguments handed on to the session.
Call(u, m, kw) == [url |-> u, method |-> m, params |-> kw]

Response(status, body) == [kind |-> "response", status |-> status, body |-> body]

Exception(exc, arg) == [kind |-> "exception", exc |-> exc, arg |-> arg]

\* The microseconds of a duration of num/den seconds (den divides 10^6).
Seconds(num, den) == num * (1000000 \div den)

PatreonTypes == {"regular", "gold", "diamond", "champion", "gc", "legend", "org"}

\* PatreonType.rate_limit
rate_limit(type) ==
    CASE type = "regular"  -> Seconds(3600, 1000)
      [] type = "gold"     -> Seconds(3600, 2000)
      [] type = "diamond"  -> Seconds(3600, 5000)
      [] type = "champion" -> Seconds(1, 8)
      [] type = "gc"       -> Seconds(1, 16)
      [] type = "legend"   -> Seconds(1, 32)
      [] type = "org"      -> Seconds(1, 64)

\* Api.__init__, the choice of sleep_time_on_rate_limit (None: not passed).
InitialSleepTime(arg, type) ==
    IF arg = None THEN rate_limit(type) ELSE arg.value

----------------------------------------------------------------------------
\* Api._request, the pure parts.

\* url = base_url + url_or_endpoint if it starts with "/", else as given.
ResolveUrl(u) ==
    IF u.base = "" THEN [u EXCEPT !.base = DEFAULT_URL] ELSE u

ValidMethods == {"GET", "POST", "PUT", "PATCH", "DELETE"}

\* The connection-failure cap: `if retries >= 10: raise e`.
MaxRetries == 10

RetriesExhausted(n) == n >= MaxRetries

\* The pause after a ConnectionError: asyncio.sleep(10).
ConnectionErrorSleep == Seconds(10, 1)

Is2xx(status) == 200 <= status /\ status < 300

IsRateLimited(status) == status = 429

\* The 429 branch, given the counter c and the sleep time t: the sleeps
\* it performs (`if self.sleep_time_on_rate_limit: await asyncio.sleep(..)`)
\* and the counter after `self.rate_limit_count += 1`.
RateLimited_CountsOnlyWhenSleeping(c, t) ==
    [slept |-> IF t # 0 THEN <<t>> ELSE <<>>,
     rate_limit_count |-> IF t # 0 THEN c + 1 ELSE c]

RateLimited_AlwaysSleeps(c, t) ==
    [slept |-> <<t>>, rate_limit_count |-> c + 1]

RateLimited(c, t) ==
    [slept |-> IF t # 0 THEN <<t>> ELSE <<>>, rate_limit_count |-> c + 1]

\* `retries = 0` once the session call has produced a response.
RetriesAfterResponse(n) == 0

\* The except ConnectionError branch, given retries n and the error e:
\* `retries += 1; if retries >= 10: raise e; continue`.
OnConnectionError(n, e) ==
    [retries |-> n + 1,
     raises |-> RetriesExhausted(n + 1),
     error |-> e]

OnTimeoutError_Retries(n, e) ==
    [retries |-> n + 1, raises |-> RetriesExhausted(n + 1), error |-> e]

\* The except TimeoutError branch: `raise e`.
OnTimeoutError(n, e) == [retries |-> n, raises |-> TRUE, error |-> e]

StatusError_Generic(r) ==
    Exception("ValueError", [message |-> "request failed"])

\* The last branch, for a status neither 2xx nor 429: `raise ValueError(r)`.
StatusError(r) == Exception("ValueError", r)

----------------------------------------------------------------------------
\* The facade operations that make one request and hand its result on.

\* The tiers the constructor is given, and those a ping reports.
InitTypes == {"regular", "org"}
PingTypes == {"gold", "org"}

\* The request each operation makes.
ping_call == Call(Endpoint(<<>>), "GET", Empty)
get_replay_call(id) == Call(Endpoint(<<"replays", id>>), "GET", Empty)
download_replay_call(id) ==
    Call(Endpoint(<<"replays", id, "file">>), "GET", Empty)
patch_replay_call(id, fields) ==
    Call(Endpoint(<<"replays", id>>), "PATCH", [json |-> fields])
upload_replay_call(name, visibility, group) ==
    Call(Endpoint(<<"v2", "upload">>), "POST",
         [data |-> [file |-> name],
          params |-> [visibility |-> visibility, group |-> group]])

SimpleCalls ==
    [get_replay |-> get_replay_call("r1"),
     patch_replay |-> patch_replay_call("r1", [title |-> "t"]),
     upload_replay_from_bytes |-> upload_replay_call("f", "public", None)]

SimpleOps == DOMAIN SimpleCalls

\* Methods a direct caller of _request may pass; "HEAD" is none the
\* match statement knows.
DirectMethods == {"PUT", "HEAD"}

----------------------------------------------------------------------------
\* get_replays and get_groups, the pure parts.

\* The most items the API returns on one page: `min(left, 200)`.
PageCap == 200

\* The default of get_replays' count, and of get_groups'.
DefaultReplayCount == 150
DefaultGroupCount == 200

\* util.rfc3339, for None and for a text.
rfc3339(dt) ==
    IF dt = None THEN dt
    ELSE IF dt.kind = "str" THEN dt
    ELSE Exception("ValueError", [message |-> "Date must be either string or datetime"])

\* `dict((k, v) for k, v in params.items() if v is not None)`
RemoveNone(d) == [k \in {k \in DOMAIN d : d[k] # None} |-> d[k]]

\* get_replays' arguments: the defaults, with uploader and group_id given.
ReplayArgs(uploader, group_id) ==
    [player_name |-> List(<<>>), player_id |-> List(<<>>), title |-> None,
     playlist |-> List(<<>>), season |-> List(<<>>), match_result |-> None,
     min_rank |-> None, max_rank |-> None, pro |-> None,
     uploader |-> uploader, group_id |-> group_id, map_id |-> None,
     created_before |-> None, created_after |-> None,
     replay_after |-> None, replay_before |-> None,
     sort_by |-> None, sort_dir |-> Str("desc")]

\* get_replays, lines 294-316: the url and the filters.
ReplaysUrl == Url(DEFAULT_URL, <<"replays">>, Empty, 0)

get_replays_params(a) ==
    RemoveNone(
        ("title" :> a.title) @@ ("player-name" :> a.player_name)
        @@ ("player-id" :> a.player_id) @@ ("playlist" :> a.playlist)
        @@ ("season" :> a.season) @@ ("match-result" :> a.match_result)
        @@ ("min-rank" :> a.min_rank) @@ ("max-rank" :> a.max_rank)
        @@ ("pro" :> a.pro) @@ ("uploader" :> a.uploader)
        @@ ("group" :> a.group_id) @@ ("map" :> a.map_id)
        @@ ("created-before" :> rfc3339(a.created_before))
        @@ ("created-after" :> rfc3339(a.created_after))
        @@ ("replay-date-after" :> rfc3339(a.replay_after))
        @@ ("replay-date-before" :> rfc3339(a.replay_before))
        @@ ("sort-by" :> a.sort_by) @@ ("sort-dir" :> a.sort_dir))

\* str(v).lower(), for None and for a bool.
StrLower(v) ==
    IF v = None THEN Str("none")
    ELSE IF v = Bool(TRUE) THEN Str("true")
    ELSE Str("false")

\* search, lines 209-233: the filters, and the count as it was given.
search_params(a, count) ==
    RemoveNone(
        ("title" :> a.title) @@ ("player-name" :> a.player_name)
        @@ ("player-id" :> a.player_id) @@ ("playlist" :> a.playlist)
        @@ ("season" :> a.season) @@ ("match-result" :> a.match_result)
        @@ ("min-rank" :> a.min_rank) @@ ("max-rank" :> a.max_rank)
        @@ ("pro" :> StrLower(a.pro)) @@ ("uploader" :> a.uploader)
        @@ ("group" :> a.group_id) @@ ("map" :> a.map_id)
        @@ ("created-before" :> rfc3339(a.created_before))
        @@ ("created-after" :> rfc3339(a.created_after))
        @@ ("replay-date-after" :> rfc3339(a.replay_after))
        @@ ("replay-date-before" :> rfc3339(a.replay_before))
        @@ ("sort-by" :> a.sort_by) @@ ("sort-dir" :> a.sort_dir)
        @@ ("count" :> PInt(count)))

\* Line 233: `self._request(url, "GET", params=params)`
search_call(a, count) ==
    Call(ReplaysUrl, "GET", [params |-> search_params(a, count)])

\* get_groups' arguments: the defaults, with creator and group given.
GroupArgs(creator, group) ==
    [name |-> None, creator |-> creator, group |-> group,
     created_before |-> None, created_after |-> None,
     sort_by |-> Str("created"), sort_dir |-> Str("desc")]

\* get_groups, lines 464-474: the url and the filters.
GroupsUrl == Url(DEFAULT_URL, <<"groups", "">>, Empty, 0)

get_groups_params(a) ==
    RemoveNone(
        ("name" :> a.name) @@ ("creator" :> a.creator) @@ ("group" :> a.group)
        @@ ("created-before" :> rfc3339(a.created_before))
        @@ ("created-after" :> rfc3339(a.created_after))
        @@ ("sort-by" :> a.sort_by) @@ ("sort-dir" :> a.sort_dir))

\* A generator of get_replays or get_groups at `left = count`.
Generator(fn, u, p, count, deep) ==
    [fn |-> fn, url |-> u, params |-> p, left |-> count, deep |-> deep,
     at |-> "head", buffer |-> <<>>, next |-> None, got |-> 0]

get_replays(a, count, deep) ==
    Generator("get_replays", ReplaysUrl, get_replays_params(a), count, deep)

get_groups(a, count) ==
    Generator("get_groups", GroupsUrl, get_groups_params(a), count, FALSE)

\* `while left > 0`
LoopGoesOn(left) == left > 0

\* `request_count = min(left, 200)`
RequestCount(left) == Min(left, PageCap)

\* `params["count"] = request_count; self._request(url, "GET", params=params)`
PageCall(g) ==
    Call(g.url, "GET",
         [params |-> ("count" :> PInt(RequestCount(g.left))) @@ g.params])

AfterPage_KeepsLeft(g) ==
    IF g.next = None
    THEN [g EXCEPT !.at = "done"]
    ELSE [g EXCEPT !.url = g.next, !.params = Empty, !.at = "head"]

AfterPage_StopsOnShortPage(g) ==
    IF g.next = None \/ g.got < PageCap
    THEN [g EXCEPT !.at = "done"]
    ELSE [g EXCEPT !.url = g.next, !.left = g.left - g.got,
                   !.params = Empty, !.at = "head"]

AfterPage_TakesAsked(g) ==
    IF g.next = None
    THEN [g EXCEPT !.at = "done"]
    ELSE [g EXCEPT !.url = g.next, !.left = g.left - Min(g.left, PageCap),
                   !.params = Empty, !.at = "head"]

AfterPage_KeepsParams(g) ==
    IF g.next = None
    THEN [g EXCEPT !.at = "done"]
    ELSE [g EXCEPT !.url = g.next, !.left = g.left - g.got, !.at = "head"]

\* After the page's items, lines 338-343 and 488-493: break when the page
\* has no next; else follow it, with what the page held taken off left.
AfterPage(g) ==
    IF g.next = None
    THEN [g EXCEPT !.at = "done"]
    ELSE [g EXCEPT !.url = g.next, !.left = g.left - g.got,
                   !.params = Empty, !.at = "head"]

----------------------------------------------------------------------------
\* The server, as far as one request sees it.

Statuses == {200, 201, 429, 409, 500}

PingBodies ==
    [name : {Str("nick")}, steam_id : {Str("765")}, type : PingTypes \cup {"unknown"}]

\* A tree of groups: the child groups of each group, in the server's
\* order, and the number of replays directly in each group.
Tree(children, replays) ==
    [kind |-> "tree", log |-> TRUE, children |-> children, replays |-> replays]

\* A server with items without end; log: the page requests are recorded.
Pages(log) == [kind |-> "pages", log |-> log]

\* The i-th replay directly in group g.
ReplayOf(g, i) == g * 1000 + i

\* The content of a listing of `path` under the filters q, in the
\* server's order: the direct replays or the child groups of q's group.
Content(path, q) ==
    LET g == q["group"].v
    IN IF path = <<"replays">>
       THEN [i \in 1..world.replays[g] |-> ReplayOf(g, i)]
       ELSE world.children[g]

\* The page lengths a server may choose when at most n items fit.
PageLens(n) == {0, 1, n - 1, n} \cap 0..n

IsListing(call) ==
    /\ call.method = "GET"
    /\ \/ call.url.path = <<"replays">>
       \/ Len(call.url.path) = 2 /\ call.url.path[1] = "groups"
                                 /\ call.url.path[2] = ""

\* The pages the server may send in answer to a listing call: never more
\* items than the count asked for, nor than the page cap.  The next url
\* holds the filters and the place to go on from.  A server of kind
\* "pages" has items without end and may cut a page short and give or
\* withhold the next url as it likes; a "tree" server sends all that fits
\* and a next url when more is left.
ListingPages(call) ==
    LET d == call.params.params
        asked == IF "count" \in DOMAIN d THEN d["count"].v ELSE DefaultReplayCount
        fits == Min(asked, PageCap)
        off == call.url.after
        q == IF call.url.query # Empty THEN call.url.query
             ELSE [k \in DOMAIN d \ {"count"} |-> d[k]]
        cursor(n) == Url(DEFAULT_URL, call.url.path, q, off + n)
    IN IF world.kind = "pages"
       THEN UNION {{[list |-> [i \in 1..n |-> off + i], next |-> nx] :
                        nx \in {None, cursor(n)}} : n \in PageLens(fits)}
       ELSE LET c == Content(call.url.path, q)
                n == Min(fits, Len(c) - off)
            IN {[list |-> [i \in 1..n |-> c[off + i]],
                 next |-> IF off + n < Len(c) THEN cursor(n) ELSE None]}

\* GET /replays/{id}
IsGetReplay(call) ==
    /\ call.method = "GET"
    /\ Len(call.url.path) = 2
    /\ call.url.path[1] = "replays"

\* The replay `id` with its stats, as get_replay returns it.
FullReplay(id) == [id |-> id, stats |-> TRUE]

\* The bodies the server may send with `status` in answer to `call`.
Bodies(call, status) ==
    IF ~Is2xx(status) THEN {[error |-> status]}
    ELSE IF IsListing(call) THEN ListingPages(call)
    ELSE IF IsGetReplay(call) THEN {FullReplay(call.url.path[2])}
    ELSE IF call.url.path = <<>> /\ call.method = "GET" THEN PingBodies
    ELSE {[ok |-> TRUE]}

\* models.Ping(**result): the schema accepts the body.
PingValid(body) == body.type \in PatreonTypes

----------------------------------------------------------------------------
\* Api.__init__

\* Not passed, zero, and five seconds.
SleepArgs ==
    {None, [kind |-> "float", value |-> 0],
     [kind |-> "float", value |-> Seconds(5, 1)]}

InitApi(arg, type) ==
    /\ steam_name = None
    /\ steam_id = None
    /\ patreon_type = type
    /\ rate_limit_count = 0
    /\ sleep_time_on_rate_limit = InitialSleepTime(arg, type)
    /\ given_sleep_time = arg

InitRequest ==
    /\ pc = "idle"
    /\ url = None
    /\ method = None
    /\ params = None
    /\ retries = 0
    /\ result = None
    /\ attempts = 0
    /\ seen429 = 0
    /\ consec = 0
    /\ last = None
    /\ sent = {}
    /\ slept = <<>>
    /\ count0 = 0
    /\ calls = 0

\* No operation is under way.
InitNoOp == op = [name |-> "none", state |-> "done", value |-> None]

\* No comparison is under way.
InitNoEq ==
    /\ eq_self = None
    /\ eq_other = None
    /\ eq_result = None

\* A disk: the directories, as paths, and the files, each in its folder.
Disk(dirs, files) == [dirs |-> dirs, files |-> files]

\* os.path.join(folder, name)
Join(folder, name) == Append(folder, name)

\* f"{folder}/{replay_id}.replay"
File(folder, replay_id) == [folder |-> folder, name |-> <<replay_id, "replay">>]

\* os.makedirs(folder, exist_ok=True): the folder and every folder above it.
makedirs(dirs, folder) ==
    dirs \cup {SubSeq(folder, 1, k) : k \in 1..Len(folder)}

NoDisk == Disk({}, {})

\* No listing is under way.
InitNoList ==
    /\ world = [kind |-> "none"]
    /\ disk = NoDisk
    /\ stack = <<>>
    /\ yielded = <<>>
    /\ pages = <<>>

----------------------------------------------------------------------------
\* Api._request

\* The call is entered: lines 84-90.
Enter(call) ==
    /\ pc' = "attempt"
    /\ url' = ResolveUrl(call.url)
    /\ method' = call.method
    /\ params' = call.params
    /\ retries' = 0
    /\ result' = None
    /\ attempts' = 0
    /\ seen429' = 0
    /\ consec' = 0
    /\ last' = None
    /\ sent' = {}
    /\ slept' = <<>>
    /\ count0' = rate_limit_count
    /\ calls' = IF calls < MaxCalls THEN calls + 1 ELSE calls

Sent == [url |-> url, method |-> method, params |-> params]

\* `case _: raise ValueError("Invalid HTTP method.")`: no except clause
\* catches it.
InvalidMethod ==
    /\ pc = "attempt"
    /\ method \notin ValidMethods
    /\ pc' = "raised"
    /\ result' = Exception("ValueError", [message |-> "Invalid HTTP method."])
    /\ slept' = <<>>
    /\ UNCHANGED <<apiVars, url, method, params, retries, callerVars, attempts,
                   seen429, consec, last, sent, count0, calls>>

\* The session call raises ConnectionError: lines 110-116.
AttemptConnectionError ==
    /\ pc = "attempt"
    /\ method \in ValidMethods
    /\ LET e == Exception("ConnectionError", [attempt |-> attempts + 1])
           c == OnConnectionError(retries, e)
       IN /\ retries' = c.retries
          /\ pc' = IF c.raises THEN "raised" ELSE "attempt"
          /\ result' = IF c.raises THEN c.error ELSE result
          /\ last' = e
    /\ slept' = <<ConnectionErrorSleep>>
    /\ attempts' = attempts + 1
    /\ consec' = consec + 1
    /\ sent' = sent \cup {Sent}
    /\ UNCHANGED <<apiVars, url, method, params, callerVars, seen429, count0,
                   calls>>

\* The session call raises TimeoutError: lines 117-119.
AttemptTimeoutError ==
    /\ pc = "attempt"
    /\ method \in ValidMethods
    /\ LET e == Exception("TimeoutError", [attempt |-> attempts + 1])
           c == OnTimeoutError(retries, e)
       IN /\ retries' = c.retries
          /\ pc' = IF c.raises THEN "raised" ELSE "attempt"
          /\ result' = IF c.raises THEN c.error ELSE result
          /\ last' = e
    /\ slept' = <<>>
    /\ attempts' = attempts + 1
    /\ consec' = 0
    /\ sent' = sent \cup {Sent}
    /\ UNCHANGED <<apiVars, url, method, params, callerVars, seen429, count0,
                   calls>>

\* The session call produces the response r: lines 109 and 121-130.
AttemptResponse(r) ==
    /\ pc = "attempt"
    /\ method \in ValidMethods
    /\ r.status = 429 => rate_limit_count < Max429
    /\ retries' = RetriesAfterResponse(retries)
    /\ IF Is2xx(r.status) THEN
           /\ pc' = "returned"
           /\ result' = r
           /\ slept' = <<>>
           /\ UNCHANGED apiVars
       ELSE IF IsRateLimited(r.status) THEN
           LET rl == RateLimited(rate_limit_count, sleep_time_on_rate_limit)
           IN /\ pc' = "attempt"
              /\ result' = result
              /\ slept' = rl.slept
              /\ rate_limit_count' = rl.rate_limit_count
              /\ UNCHANGED <<steam_name, steam_id, patreon_type,
                             sleep_time_on_rate_limit, given_sleep_time>>
       ELSE
           /\ pc' = "raised"
           /\ result' = StatusError(r)
           /\ slept' = <<>>
           /\ UNCHANGED apiVars
    /\ last' = r
    /\ attempts' = attempts + 1
    /\ seen429' = IF r.status = 429 THEN seen429 + 1 ELSE seen429
    /\ consec' = 0
    /\ sent' = sent \cup {Sent}
    /\ UNCHANGED <<url, method, params, callerVars, count0, calls>>

Respond ==
    /\ pc = "attempt"
    /\ \E status \in Statuses :
          \E body \in Bodies(Sent, status) :
              AttemptResponse(Response(status, body))

----------------------------------------------------------------------------
\* The facade.

Idle == op.state # "running" /\ calls < MaxCalls

Running(name) == [name |-> name, state |-> "running", value |-> None]

\* get_replay, patch_replay,
\* upload_replay_from_bytes: `await self._request(...)`.
Invoke ==
    /\ Idle
    /\ \E name \in SimpleOps :
          /\ op' = Running(name)
          /\ Enter(SimpleCalls[name])
    /\ UNCHANGED <<apiVars, otherVars>>

\* A direct call of the helper.
InvokeDirect ==
    /\ Idle
    /\ \E m \in DirectMethods :
          /\ op' = Running("_request")
          /\ Enter(Call(Endpoint(<<"replays", "r1">>), m, Empty))
    /\ UNCHANGED <<apiVars, otherVars>>

\* ping: line 142.
InvokePing ==
    /\ Idle
    /\ op' = Running("ping")
    /\ Enter(ping_call)
    /\ UNCHANGED <<apiVars, otherVars>>

\* The operation hands the response's content to its caller.
Return ==
    /\ op.state = "running"
    /\ op.name # "ping"
    /\ pc = "returned"
    /\ op' = [op EXCEPT !.state = "returned", !.value = result.body]
    /\ UNCHANGED <<apiVars, reqVars, obsVars, otherVars>>

ReturnPing_KeepsSleepTime ==
    /\ op.state = "running"
    /\ op.name = "ping"
    /\ pc = "returned"
    /\ IF PingValid(result.body) THEN
           /\ steam_name' = result.body.name
           /\ steam_id' = result.body.steam_id
           /\ patreon_type' = result.body.type
           /\ sleep_time_on_rate_limit' = sleep_time_on_rate_limit
           /\ op' = [op EXCEPT !.state = "returned", !.value = result.body]
       ELSE
           /\ op' = [op EXCEPT !.state = "raised",
                               !.value = Exception("ValidationError", result.body)]
           /\ UNCHANGED <<steam_name, steam_id, patreon_type,
                          sleep_time_on_rate_limit>>
    /\ UNCHANGED <<rate_limit_count, given_sleep_time, reqVars, obsVars,
                   otherVars>>

\* ping: lines 143-151.
ReturnPing ==
    /\ op.state = "running"
    /\ op.name = "ping"
    /\ pc = "returned"
    /\ IF PingValid(result.body) THEN
           /\ steam_name' = result.body.name
           /\ steam_id' = result.body.steam_id
           /\ patreon_type' = result.body.type
           /\ sleep_time_on_rate_limit' = rate_limit(result.body.type)
           /\ op' = [op EXCEPT !.state = "returned", !.value = result.body]
       ELSE
           /\ op' = [op EXCEPT !.state = "raised",
                               !.value = Exception("ValidationError", result.body)]
           /\ UNCHANGED <<steam_name, steam_id, patreon_type,
                          sleep_time_on_rate_limit>>
    /\ UNCHANGED <<rate_limit_count, given_sleep_time, reqVars, obsVars,
                   otherVars>>

\* No operation catches what _request raises.
Propagate ==
    /\ op.state = "running"
    /\ pc = "raised"
    /\ op' = [op EXCEPT !.state = "raised", !.value = result]
    /\ UNCHANGED <<apiVars, reqVars, obsVars, otherVars>>

----------------------------------------------------------------------------
\* The client and the single-request operations.

Init ==
    /\ \E arg \in SleepArgs, type \in InitTypes : InitApi(arg, type)
    /\ InitRequest
    /\ InitNoOp
    /\ InitNoEq
    /\ InitNoList

Next ==
    \/ Invoke
    \/ InvokeDirect
    \/ InvokePing
    \/ InvalidMethod
    \/ AttemptConnectionError
    \/ AttemptTimeoutError
    \/ Respond
    \/ Return
    \/ ReturnPing
    \/ Propagate

Spec == Init /\ [][Next]_vars

----------------------------------------------------------------------------
\* Properties of Api._request.

IsResponse(x) == x.kind = "response"

IsError(x, exc) == x.kind = "exception" /\ x.exc = exc

\* The step is a transport attempt of the running call.
AttemptStep == attempts' = attempts + 1

\* The step stays within the running call.
SameCall == calls' = calls

\* C1: a call that returns hands back the 2xx response the transport gave
\* last, and rate_limit_count has grown over its value at the call's start
\* by exactly the number of 429 responses the call received.
C1_CounterCounts429 ==
    pc = "returned" =>
        /\ IsResponse(result)
        /\ result = last
        /\ result.status \in 200..299
        /\ rate_limit_count = count0 + seen429

\* A second call on the client returns after two 429 responses.
C1_Witness ==
    pc = "returned" /\ seen429 = 2 /\ count0 = 1 /\ rate_limit_count = 3

\* C2: a call fails with the ConnectionError only at the 11th consecutive
\* connection failure; when every attempt failed, that is the 11th attempt.
C2_ElevenAttempts ==
    (pc = "raised" /\ IsError(result, "ConnectionError")) =>
        /\ consec = 11
        /\ (attempts = consec => attempts = 11)

\* C8: the attempt that times out ends the call with that TimeoutError and
\* leaves rate_limit_count alone; the call makes no attempt after it.
C8_TimeoutIsFatal ==
    [][/\ (AttemptStep /\ IsError(last', "TimeoutError")) =>
            /\ pc' = "raised"
            /\ result' = last'
            /\ rate_limit_count' = rate_limit_count
       /\ (IsError(last, "TimeoutError") /\ SameCall) =>
            /\ ~AttemptStep
            /\ pc' = "raised"
            /\ result' = result
            /\ rate_limit_count' = rate_limit_count]_vars

\* A call times out after connection failures, a 429, and more connection
\* failures.
C8_Witness ==
    /\ pc = "raised"
    /\ IsError(result, "TimeoutError")
    /\ seen429 = 1
    /\ attempts = 6
    /\ retries = 2

\* The response is neither 2xx nor 429.
OtherStatus(x) ==
    IsResponse(x) /\ x.status \notin 200..299 /\ x.status # 429

\* C9: a response whose status is neither 2xx nor 429 ends the call with an
\* error that carries that response (status and body); no attempt follows
\* it and rate_limit_count stays; an upload answered 409 ends with an error
\* whose status is 409.
C9_OtherStatusIsFatal ==
    [][/\ (AttemptStep /\ OtherStatus(last')) =>
            /\ pc' = "raised"
            /\ result'.kind = "exception"
            /\ result'.arg = last'
            /\ rate_limit_count' = rate_limit_count
       /\ (OtherStatus(last) /\ SameCall) =>
            /\ ~AttemptStep
            /\ pc' = "raised"
            /\ rate_limit_count' = rate_limit_count
       /\ (/\ op'.name = "upload_replay_from_bytes"
           /\ op'.state # "running"
           /\ OtherStatus(last') /\ last'.status = 409) =>
            /\ op'.state = "raised"
            /\ op'.value.kind = "exception"
            /\ op'.value.arg.status = 409
            /\ op'.value.arg.body = last'.body]_vars

\* An upload the server answers 409, after a 429, has ended with the error.
C9_Witness ==
    /\ op.name = "upload_replay_from_bytes"
    /\ op.state = "raised"
    /\ op.value.kind = "exception"
    /\ op.value.exc = "ValueError"
    /\ op.value.arg.status = 409
    /\ seen429 = 1

\* C10: a 429 is answered by the sleep of the current
\* sleep_time_on_rate_limit (none when it is zero) and another attempt of
\* the same request; it never ends the call and leaves the count of
\* connection failures at zero; a 2xx response ends the call at once.
C10_RetryOn429 ==
    [][/\ (AttemptStep /\ IsResponse(last') /\ last'.status = 429) =>
            /\ pc' = "attempt"
            /\ slept' = IF sleep_time_on_rate_limit = 0
                         THEN <<>> ELSE <<sleep_time_on_rate_limit>>
            /\ retries' = 0
            /\ Sent' = Sent
       /\ (AttemptStep /\ IsResponse(last') /\ last'.status \in 200..299) =>
            pc' = "returned"
       /\ (AttemptStep /\ pc' = "raised") =>
            ~(IsResponse(last') /\ last'.status = 429)
       /\ AttemptStep => sent' = {Sent}]_vars

\* After a ping has set the tier, the third 429 of a call is slept off and
\* the call is about to try again.
C10_Witness ==
    /\ pc = "attempt"
    /\ steam_name # None
    /\ seen429 = 3
    /\ IsResponse(last) /\ last.status = 429
    /\ slept = <<rate_limit(patreon_type)>>
    /\ count0 = 0

\* What ping stores on the client.
PingFields == <<steam_name, steam_id, patreon_type, sleep_time_on_rate_limit>>

C22_GivenSleepTimeStays ==
    (pc = "attempt" /\ IsResponse(last) /\ last.status = 429) =>
        IF given_sleep_time = None
        THEN slept = <<rate_limit(patreon_type)>>
        ELSE slept = IF given_sleep_time.value = 0
                     THEN <<>> ELSE <<given_sleep_time.value>>

----------------------------------------------------------------------------
\* The generators: get_replays, get_groups, get_group_replays.

\* A frame of a running generator: a listing the consumer iterates, or a
\* get_group_replays(group_id, deep) with the listing it iterates at
\* present.
Frame(fn, group_id, deep, gen) ==
    [fn |-> fn, group_id |-> group_id, deep |-> deep, gen |-> gen]

Top == stack[Len(stack)]

SetGen(g) == [stack EXCEPT ![Len(stack)].gen = g]

Pop == SubSeq(stack, 1, Len(stack) - 1)

\* The operation the consumer iterates, with the count it was given.
Iterating(name, count) ==
    [name |-> name, state |-> "running", value |-> None, count |-> count]

\* get_group_replays(group_id), line 566: its listing of the child groups.
get_group_replays(group_id, deep) ==
    Frame("get_group_replays", group_id, deep,
          get_groups(GroupArgs(None, Str(group_id)), DefaultGroupCount))

\* download_group(group_id, folder, True), lines 600-603: the group's
\* folder, yet to be made, and the listing of the child groups.
download_group(group_id, folder) ==
    [fn |-> "download_group", group_id |-> group_id, deep |-> FALSE,
     folder |-> Join(folder, group_id),
     gen |-> [get_groups(GroupArgs(None, Str(group_id)), DefaultGroupCount)
                  EXCEPT !.at = "enter"]]

OwnReplays_OfRoot(group_id, deep) ==
    get_replays(ReplayArgs(None, Str(1)), DefaultReplayCount, deep)

\* Line 569: the listing of the group's own replays.
OwnReplays(group_id, deep) ==
    get_replays(ReplayArgs(None, Str(group_id)), DefaultReplayCount, deep)

\* The head of the while loop, lines 319-322 and 477-480: the next page
\* is requested, or the loop and the generator end.
ListHead ==
    /\ stack # <<>>
    /\ Top.gen.at = "head"
    /\ IF LoopGoesOn(Top.gen.left) THEN
           /\ world = Pages(TRUE) => Len(pages) < MaxPages
           /\ Enter(PageCall(Top.gen))
           /\ stack' = SetGen([Top.gen EXCEPT !.at = "await"])
           /\ pages' = IF world.log
                       THEN Append(pages, [fn |-> Top.gen.fn,
                                           call |-> PageCall(Top.gen),
                                           got |-> 0, next |-> None])
                       ELSE pages
       ELSE
           /\ stack' = SetGen([Top.gen EXCEPT !.at = "done"])
           /\ UNCHANGED <<reqVars, obsVars, pages>>
    /\ UNCHANGED <<apiVars, op, eqVars, world, disk, yielded>>

\* The items of the page are taken one by one, with awaits between them:
\* the child groups that get_group_replays or download_group walks, the
\* replays that a deep listing fetches, and those that download_group
\* downloads.
OneByOne(frame) ==
    \/ /\ frame.fn \in {"get_group_replays", "download_group"}
       /\ frame.gen.fn = "get_groups"
    \/ frame.gen.deep
    \/ op.name = "download_group"

\* The page has come, lines 323-343 and 481-493.  A listing that is not
\* deep, of replays or one the consumer iterates, hands its items on and
\* goes on after the page; else the items are kept, to be taken one by
\* one.
ListPage ==
    /\ stack # <<>>
    /\ Top.gen.at = "await"
    /\ pc = "returned"
    /\ LET page == result.body
           g == [Top.gen EXCEPT !.next = page.next, !.got = Len(page.list)]
       IN /\ IF OneByOne(Top) THEN
                 /\ stack' = SetGen([g EXCEPT !.buffer = page.list, !.at = "items"])
                 /\ yielded' = yielded
             ELSE
                 /\ stack' = SetGen(AfterPage(g))
                 /\ yielded' = yielded \o page.list
          /\ pages' = IF world.log
                       THEN [pages EXCEPT ![Len(pages)].got = Len(page.list),
                                          ![Len(pages)].next = page.next]
                       ELSE pages
    /\ UNCHANGED <<apiVars, reqVars, obsVars, op, eqVars, world, disk>>

NextChild_LastFirst ==
    /\ stack # <<>>
    /\ Top.fn = "get_group_replays"
    /\ Top.gen.fn = "get_groups"
    /\ Top.gen.at = "items"
    /\ Top.gen.buffer # <<>>
    /\ LET b == Top.gen.buffer
       IN stack' = Append(SetGen([Top.gen EXCEPT !.buffer = SubSeq(b, 1, Len(b) - 1)]),
                          get_group_replays(b[Len(b)], Top.deep))
    /\ UNCHANGED <<apiVars, reqVars, obsVars, op, eqVars, world, disk, yielded,
                   pages>>

\* Line 567: the walk of the next child group of the page starts.
NextChild ==
    /\ stack # <<>>
    /\ Top.fn = "get_group_replays"
    /\ Top.gen.fn = "get_groups"
    /\ Top.gen.at = "items"
    /\ Top.gen.buffer # <<>>
    /\ stack' = Append(SetGen([Top.gen EXCEPT !.buffer = Tail(@)]),
                       get_group_replays(Head(Top.gen.buffer), Top.deep))
    /\ UNCHANGED <<apiVars, reqVars, obsVars, op, eqVars, world, disk, yielded,
                   pages>>

\* Line 335: `replay = await self.get_replay(r.id)` for the next item of
\* the page of a deep listing.
DeepFetch ==
    /\ stack # <<>>
    /\ Top.gen.fn = "get_replays"
    /\ Top.gen.deep
    /\ Top.gen.at = "items"
    /\ Top.gen.buffer # <<>>
    /\ Enter(get_replay_call(Head(Top.gen.buffer)))
    /\ stack' = SetGen([Top.gen EXCEPT !.at = "fetch"])
    /\ UNCHANGED <<apiVars, op, eqVars, world, disk, yielded, pages>>

\* Line 336: `yield replay`, the replay that get_replay has returned.
DeepYield ==
    /\ stack # <<>>
    /\ Top.gen.at = "fetch"
    /\ pc = "returned"
    /\ yielded' = Append(yielded, result.body)
    /\ stack' = SetGen([Top.gen EXCEPT !.buffer = Tail(@), !.at = "items"])
    /\ UNCHANGED <<apiVars, reqVars, obsVars, op, eqVars, world, disk, pages>>

\* Lines 338-343 and 488-493, once every item of the page is dealt with:
\* every child group walked, every replay of a deep listing fetched.
GroupsPageDone ==
    /\ stack # <<>>
    /\ Top.gen.at = "items"
    /\ Top.gen.buffer = <<>>
    /\ stack' = SetGen(AfterPage(Top.gen))
    /\ UNCHANGED <<apiVars, reqVars, obsVars, op, eqVars, world, disk, yielded,
                   pages>>

\* Line 569: the child groups are done, the group's own replays follow.
WalkReplays ==
    /\ stack # <<>>
    /\ Top.fn = "get_group_replays"
    /\ Top.gen.fn = "get_groups"
    /\ Top.gen.at = "done"
    /\ stack' = SetGen(OwnReplays(Top.group_id, Top.deep))
    /\ UNCHANGED <<apiVars, reqVars, obsVars, op, eqVars, world, disk, yielded,
                   pages>>

\* The generator is exhausted: its caller goes on, or the consumer's
\* iteration ends.
Exhausted ==
    /\ stack # <<>>
    /\ Top.gen.at = "done"
    /\ Top.fn \in {"get_group_replays", "download_group"} =>
          Top.gen.fn = "get_replays"
    /\ stack' = Pop
    /\ op' = IF Len(stack) = 1 THEN [op EXCEPT !.state = "returned"] ELSE op
    /\ UNCHANGED <<apiVars, reqVars, obsVars, eqVars, world, disk, yielded,
                   pages>>

ListRaise_SkipsGroup ==
    /\ stack # <<>>
    /\ Top.gen.at \in {"await", "fetch", "file"}
    /\ pc = "raised"
    /\ stack' = Pop
    /\ op' = IF Len(stack) = 1
             THEN [op EXCEPT !.state = "raised", !.value = result] ELSE op
    /\ UNCHANGED <<apiVars, reqVars, obsVars, eqVars, world, disk, yielded,
                   pages>>

\* What _request raises passes through every generator and every
\* download_group to the consumer.
ListRaise ==
    /\ stack # <<>>
    /\ Top.gen.at \in {"await", "fetch", "file"}
    /\ pc = "raised"
    /\ stack' = <<>>
    /\ op' = [op EXCEPT !.state = "raised", !.value = result]
    /\ UNCHANGED <<apiVars, reqVars, obsVars, eqVars, world, disk, yielded,
                   pages>>

\* Line 602: os.makedirs(folder, exist_ok=True).
MakeDirs ==
    /\ stack # <<>>
    /\ Top.gen.at = "enter"
    /\ disk' = [disk EXCEPT !.dirs = makedirs(@, Top.folder)]
    /\ stack' = SetGen([Top.gen EXCEPT !.at = "head"])
    /\ UNCHANGED <<apiVars, reqVars, obsVars, op, eqVars, world, yielded, pages>>

\* Line 604: `await self.download_group(child_group.id, folder, True)` for
\* the next child group of the page.
DownloadChild ==
    /\ stack # <<>>
    /\ Top.fn = "download_group"
    /\ Top.gen.fn = "get_groups"
    /\ Top.gen.at = "items"
    /\ Top.gen.buffer # <<>>
    /\ stack' = Append(SetGen([Top.gen EXCEPT !.buffer = Tail(@)]),
                       download_group(Head(Top.gen.buffer), Top.folder))
    /\ UNCHANGED <<apiVars, reqVars, obsVars, op, eqVars, world, disk, yielded,
                   pages>>

\* Line 605: the child groups are done, `self.get_replays(group_id=group_id)`
\* follows.
DownloadReplays ==
    /\ stack # <<>>
    /\ Top.fn = "download_group"
    /\ Top.gen.fn = "get_groups"
    /\ Top.gen.at = "done"
    /\ stack' = SetGen(OwnReplays(Top.group_id, FALSE))
    /\ UNCHANGED <<apiVars, reqVars, obsVars, op, eqVars, world, disk, yielded,
                   pages>>

\* The folder that download_group hands to download_replay: its own, in
\* the recursive mode (line 606), and the root group's, line 609.
TargetFolder == IF Top.fn = "download_group" THEN Top.folder ELSE op.folder

\* Lines 606, 609 and 579: the next replay reaches download_group's loop,
\* and download_replay requests its file.
Download ==
    /\ stack # <<>>
    /\ op.name = "download_group"
    /\ Top.gen.fn = "get_replays"
    /\ Top.gen.at = "items"
    /\ Top.gen.buffer # <<>>
    /\ Enter(download_replay_call(Head(Top.gen.buffer)))
    /\ yielded' = Append(yielded, Head(Top.gen.buffer))
    /\ stack' = SetGen([Top.gen EXCEPT !.at = "file"])
    /\ UNCHANGED <<apiVars, op, eqVars, world, disk, pages>>

\* Lines 580-581: the file is opened for writing in the folder, which
\* fails when the folder is not there, and the content is written.
WriteFile ==
    /\ stack # <<>>
    /\ Top.gen.at = "file"
    /\ pc = "returned"
    /\ LET f == File(TargetFolder, Head(Top.gen.buffer))
       IN IF TargetFolder \in disk.dirs THEN
              /\ disk' = [disk EXCEPT !.files = @ \cup {f}]
              /\ stack' = SetGen([Top.gen EXCEPT !.buffer = Tail(@),
                                                 !.at = "items"])
              /\ op' = op
          ELSE
              /\ disk' = disk
              /\ stack' = <<>>
              /\ op' = [op EXCEPT !.state = "raised",
                                  !.value = Exception("FileNotFoundError", f)]
    /\ UNCHANGED <<apiVars, reqVars, obsVars, eqVars, world, yielded, pages>>

\* The connection of a page request fails.
PageConnectionError ==
    /\ consec < MaxPageFailures
    /\ AttemptConnectionError

----------------------------------------------------------------------------
\* A consumer that iterates get_replays or get_groups to the end.

Counts == {0, 3, 201}

Uploaders == {None, Str("76561197960409023")}

\* The counts of the listings that are iterated without a record of
\* their page requests.
LoopCounts == {0, 1, 3}

InitListing(log, counts) ==
    /\ InitApi(None, "regular")
    /\ InitRequest
    /\ InitNoEq
    /\ world = Pages(log)
    /\ disk = NoDisk
    /\ yielded = <<>>
    /\ pages = <<>>
    /\ \E count \in counts, who \in Uploaders :
          \/ /\ op = Iterating("get_replays", count)
             /\ stack = <<Frame("get_replays", 0, FALSE,
                                get_replays(ReplayArgs(who, None), count, FALSE))>>
          \/ /\ op = Iterating("get_groups", count)
             /\ stack = <<Frame("get_groups", 0, FALSE,
                                get_groups(GroupArgs(who, None), count))>>

InitList == InitListing(TRUE, Counts)

NextList ==
    \/ ListHead
    \/ PageConnectionError
    \/ AttemptTimeoutError
    \/ Respond
    \/ ListPage
    \/ Exhausted
    \/ ListRaise

SpecList == InitList /\ [][NextList]_vars

\* The items of the first k pages.
RECURSIVE GotUpTo(_)
GotUpTo(k) == IF k = 0 THEN 0 ELSE GotUpTo(k - 1) + pages[k].got

\* The consumer has iterated the listing to its end.
ListingDone ==
    op.name \in {"get_replays", "get_groups"} /\ op.state = "returned"

\* C3: a listing that ends without an error has yielded no more items
\* than the count it was given (the server sends no more than asked).
C3_WithinBudget == ListingDone => Len(yielded) <= op.count

\* A budget of 201 is used up by a page of 200 and a page of 1.
C3_Witness ==
    /\ ListingDone
    /\ op.count = 201
    /\ Len(pages) = 2
    /\ Len(yielded) = 201

\* C5 as stated: no page request follows a page of fewer than 200 items.
C5_StopsOnShortPage ==
    \A i \in 1..(Len(pages) - 1) : pages[i].got >= 200

\* C5, amended: a page request follows a page only if that page had a next
\* url and the pages so far held fewer items than the count; and the
\* listing ends after a page only if that page had no next url or the
\* pages so far held the count or more.
C5_StopsOnNoNextOrBudget ==
    /\ \A i \in 1..(Len(pages) - 1) :
          pages[i].next # None /\ GotUpTo(i) < op.count
    /\ (ListingDone /\ pages # <<>>) =>
          \/ pages[Len(pages)].next = None
          \/ GotUpTo(Len(pages)) >= op.count

\* A listing with a count of 201 ended after three pages, the first of
\* one item, the second of 199.
C5_Witness ==
    /\ ListingDone
    /\ op.count = 201
    /\ Len(pages) = 3
    /\ pages[1].got = 1
    /\ pages[2].got = 199

\* The parameters of the k-th page request, and the count among them.
PageParams(k) == pages[k].call.params.params

AskedCount(k) == PageParams(k)["count"].v

\* C11: the k-th page request is made with a positive rest R, the count
\* less the items the pages before it held, and asks for min(R, 200)
\* items; a listing with a count of zero makes no request and yields
\* nothing; a listing with a count of 3 whose pages hold all that is asked
\* for ends after one request for 3 items, with 3 items yielded.
C11_AsksForTheRest ==
    /\ \A k \in 1..Len(pages) :
          LET R == op.count - GotUpTo(k - 1)
          IN /\ R > 0
             /\ "count" \in DOMAIN PageParams(k)
             /\ PageParams(k)["count"] = PInt(IF R < 200 THEN R ELSE 200)
    /\ op.count = 0 => (pages = <<>> /\ yielded = <<>>)
    /\ (/\ ListingDone
        /\ op.count = 3
        /\ \A k \in 1..Len(pages) : pages[k].got = AskedCount(k)) =>
          /\ Len(pages) = 1
          /\ AskedCount(1) = 3
          /\ Len(yielded) = 3

\* Of a count of 201, a first page asked for 200 items held one and a
\* second held none: the third request asks for 200.
C11_Witness ==
    /\ op.count = 201
    /\ Len(pages) = 3
    /\ AskedCount(1) = 200
    /\ pages[1].got = 1
    /\ AskedCount(2) = 200
    /\ pages[2].got = 0
    /\ AskedCount(3) = 200

\* C12 as stated: a page request after the first goes to the next url of
\* the page before it and sends no parameters at all.
C12_NextUrlAndNoParams ==
    \A k \in 2..Len(pages) :
        /\ pages[k].call.url = pages[k - 1].next
        /\ PageParams(k) = Empty

\* C12, amended: a page request after the first goes to the next url of
\* the page before it, as the server gave it, and sends the count and no
\* other parameter: none of the caller's filters.
C12_NextUrlAndCountOnly ==
    \A k \in 2..Len(pages) :
        /\ pages[k - 1].next # None
        /\ pages[k].call.url = pages[k - 1].next
        /\ pages[k].call.method = "GET"
        /\ DOMAIN pages[k].call.params = {"params"}
        /\ DOMAIN PageParams(k) = {"count"}

\* A listing filtered by uploader has asked for its second page: the
\* filter went with the first request, and is in the next url alone.
C12_Witness ==
    /\ Len(pages) = 2
    /\ pc = "attempt"
    /\ "uploader" \in DOMAIN PageParams(1)
    /\ pages[1].got = 1
    /\ PageParams(2) = ("count" :> PInt(200))
    /\ url = pages[1].next
    /\ "uploader" \in DOMAIN url.query

\* A consumer that iterates a deep get_replays to the end.
DeepCounts == {0, 2, 3}

InitDeep ==
    /\ InitApi(None, "regular")
    /\ InitRequest
    /\ InitNoEq
    /\ world = Pages(TRUE)
    /\ disk = NoDisk
    /\ yielded = <<>>
    /\ pages = <<>>
    /\ \E count \in DeepCounts :
          /\ op = Iterating("get_replays", count)
          /\ stack = <<Frame("get_replays", 0, TRUE,
                             get_replays(ReplayArgs(None, None), count, TRUE))>>

NextDeep ==
    \/ ListHead
    \/ PageConnectionError
    \/ AttemptTimeoutError
    \/ Respond
    \/ ListPage
    \/ DeepFetch
    \/ DeepYield
    \/ GroupsPageDone
    \/ Exhausted
    \/ ListRaise

SpecDeep == InitDeep /\ [][NextDeep]_vars

\* C13: a deep listing yields, for the i-th item the server listed, what
\* get_replay returned for its id; and one that ended with an error has
\* yielded no item of the page it was at, only the items of the pages
\* before it.
C13_NoPartialYield ==
    /\ \A i \in 1..Len(yielded) : yielded[i] = FullReplay(i)
    /\ (op.state = "raised" /\ pages # <<>>) =>
          Len(yielded) = GotUpTo(Len(pages) - 1)

\* A listing iterated by a consumer that asks for the next item whenever
\* it is handed one, on an event loop that runs whatever can run, against
\* a server that answers every request.
InitLoop == InitListing(FALSE, LoopCounts)

SpecLoop == InitLoop /\ [][NextList]_vars /\ WF_vars(NextList)

\* C14: a listing with a count comes to its end, by the last item or by
\* an error, whatever pages the server sends.
C14_ListingEnds == <>(op.state # "running")

----------------------------------------------------------------------------
\* search beside get_replays and get_groups, with the same arguments.

SearchCounts == {0, 3, 200, 201}

Pros == {None, Bool(TRUE), Bool(FALSE)}

\* A listing operation with the arguments and the count it was given.
Listing(name, state, args, count) ==
    [name |-> name, state |-> state, value |-> None, count |-> count,
     args |-> args]

InitSearch ==
    /\ InitApi(None, "regular")
    /\ InitRequest
    /\ InitNoEq
    /\ world = Pages(TRUE)
    /\ disk = NoDisk
    /\ yielded = <<>>
    /\ pages = <<>>
    /\ \E count \in SearchCounts, who \in Uploaders, pro \in Pros :
          LET a == [ReplayArgs(who, None) EXCEPT !.pro = pro]
          IN \/ /\ op = Listing("search", "start", a, count)
                /\ stack = <<>>
             \/ /\ op = Listing("get_replays", "running", a, count)
                /\ stack = <<Frame("get_replays", 0, FALSE,
                                   get_replays(a, count, FALSE))>>
             \/ /\ op = Listing("get_groups", "running", GroupArgs(who, None),
                                count)
                /\ stack = <<Frame("get_groups", 0, FALSE,
                                   get_groups(GroupArgs(who, None), count))>>

\* search, line 233: its one request.
Search ==
    /\ op.name = "search"
    /\ op.state = "start"
    /\ Enter(search_call(op.args, op.count))
    /\ op' = [op EXCEPT !.state = "running"]
    /\ pages' = Append(pages, [fn |-> "search",
                               call |-> search_call(op.args, op.count),
                               got |-> 0, next |-> None])
    /\ UNCHANGED <<apiVars, eqVars, world, disk, stack, yielded>>

\* search, lines 234-235: `return models.ReplaySearch(**data)`
ReturnSearch ==
    /\ op.name = "search"
    /\ op.state = "running"
    /\ pc = "returned"
    /\ op' = [op EXCEPT !.state = "returned", !.value = result.body]
    /\ UNCHANGED <<apiVars, reqVars, obsVars, otherVars>>

\* search catches nothing of what _request raises.
RaiseSearch ==
    /\ op.name = "search"
    /\ op.state = "running"
    /\ pc = "raised"
    /\ op' = [op EXCEPT !.state = "raised", !.value = result]
    /\ UNCHANGED <<apiVars, reqVars, obsVars, otherVars>>

NextSearch ==
    \/ Search
    \/ ReturnSearch
    \/ RaiseSearch
    \/ ListHead
    \/ PageConnectionError
    \/ AttemptTimeoutError
    \/ Respond
    \/ ListPage
    \/ Exhausted
    \/ ListRaise

SpecSearch == InitSearch /\ [][NextSearch]_vars

\* C21: every request of search, get_replays and get_groups has a count
\* among its parameters, of 200 at most.
C21_CountAtMost200 ==
    \A k \in 1..Len(pages) :
        /\ "count" \in DOMAIN PageParams(k)
        /\ AskedCount(k) <= 200

\* The parameter that each argument of search and get_replays goes into.
ParamOf ==
    [title |-> "title", player_name |-> "player-name",
     player_id |-> "player-id", playlist |-> "playlist", season |-> "season",
     match_result |-> "match-result", min_rank |-> "min-rank",
     max_rank |-> "max-rank", pro |-> "pro", uploader |-> "uploader",
     group_id |-> "group", map_id |-> "map",
     created_before |-> "created-before", created_after |-> "created-after",
     replay_after |-> "replay-date-after",
     replay_before |-> "replay-date-before", sort_by |-> "sort-by",
     sort_dir |-> "sort-dir"]

\* C24: with a count of 200 at most, the request of search and the first
\* request of get_replays have the parameters that the other operation
\* sends for the same arguments, and no parameter for an argument that
\* is None.
C24_SearchAsFirstPage ==
    (op.name \in {"search", "get_replays"} /\ op.count <= 200 /\ pages # <<>>) =>
        /\ PageParams(1) = search_params(op.args, op.count)
        /\ PageParams(1) =
              PageCall(get_replays(op.args, op.count, FALSE)).params.params
        /\ \A x \in DOMAIN ParamOf :
              op.args[x] = None => ParamOf[x] \notin DOMAIN PageParams(1)

----------------------------------------------------------------------------
\* A consumer that iterates get_group_replays(1) to the end, on a tree of
\* groups whose root is group 1.

\* The trees: a lone empty group; a root with a child of two replays,
\* beside a group 3 that is no descendant of the root; a root with two
\* children, the first with a child of its own; a group of 151 replays.
Trees ==
    {Tree(<< <<>> >>, <<0>>),
     Tree(<< <<2>>, <<>>, <<>> >>, <<0, 2, 1>>),
     Tree(<< <<2, 3>>, <<4>>, <<>>, <<>> >>, <<1, 2, 1, 1>>),
     Tree(<< <<>> >>, <<151>>)}

InitWalk ==
    /\ InitApi(None, "regular")
    /\ InitRequest
    /\ InitNoEq
    /\ world \in Trees
    /\ disk = NoDisk
    /\ yielded = <<>>
    /\ pages = <<>>
    /\ op = Iterating("get_group_replays", 0)
    /\ stack = <<get_group_replays(1, FALSE)>>

NextWalk ==
    \/ ListHead
    \/ PageConnectionError
    \/ AttemptTimeoutError
    \/ Respond
    \/ ListPage
    \/ NextChild
    \/ GroupsPageDone
    \/ WalkReplays
    \/ Exhausted
    \/ ListRaise

SpecWalk == InitWalk /\ [][NextWalk]_vars

\* The walk has ended without an error.
WalkDone == op.name = "get_group_replays" /\ op.state = "returned"

\* The group g and its descendants.
RECURSIVE Subtree(_)
Subtree(g) ==
    {g} \cup UNION {Subtree(world.children[g][i]) :
                       i \in 1..Len(world.children[g])}

Descendants(g) == Subtree(g) \ {g}

\* Every replay of the root group 1 and of its descendants.
AllReplays ==
    UNION {{ReplayOf(g, i) : i \in 1..world.replays[g]} : g \in Subtree(1)}

\* The group a replay is directly in.
GroupOf(r) == r \div 1000

\* The group whose child groups or replays the k-th page request lists:
\* the filter of a first request, and in the next url of a later one.
ReqGroup(k) ==
    IF "group" \in DOMAIN PageParams(k)
    THEN PageParams(k)["group"].v
    ELSE pages[k].call.url.query["group"].v

Yielded == {yielded[i] : i \in 1..Len(yielded)}

\* C4: a walk that ends has yielded every replay of the root group and of
\* its descendants.
C4_YieldsEveryReplay == WalkDone => AllReplays \subseteq Yielded

\* x comes before y among the items yielded / the page requests made:
\* no item (request) of a group in Y comes before one of a group in X.
YieldedBefore(X, Y) ==
    \A i, j \in 1..Len(yielded) :
        (i < j /\ GroupOf(yielded[i]) \in Y) => GroupOf(yielded[j]) \notin X

RequestedBefore(X, Y) ==
    \A i, j \in 1..Len(pages) :
        (i < j /\ ReqGroup(i) \in Y) => ReqGroup(j) \notin X

\* C15: for the root, and for every group the walk comes to, the replays
\* of its descendants are yielded before its own; the request for its own
\* replays comes after every request for its child groups and for its
\* descendants; and of two child groups, the one the server listed first
\* has its whole subtree requested and yielded before the other's.
C15_ChildrenFirstInOrder ==
    \A g \in DOMAIN world.children :
        /\ YieldedBefore(Descendants(g), {g})
        /\ \A i, j \in 1..Len(pages) :
              (i < j /\ ReqGroup(i) = g /\ pages[i].fn = "get_replays") =>
                  /\ ReqGroup(j) \notin Descendants(g)
                  /\ ReqGroup(j) = g => pages[j].fn = "get_replays"
        /\ \A a, b \in 1..Len(world.children[g]) :
              a < b =>
                  /\ YieldedBefore(Subtree(world.children[g][a]),
                                   Subtree(world.children[g][b]))
                  /\ RequestedBefore(Subtree(world.children[g][a]),
                                     Subtree(world.children[g][b]))

\* The walk of the root with the children 2 and 3, 4 a child of 2, has
\* ended.
C15_Witness ==
    /\ WalkDone
    /\ yielded = <<4001, 2001, 2002, 3001, 1001>>
    /\ Len(pages) = 8

\* C16: the walk yields only replays of the root and of its descendants,
\* and none twice; the walk of a root without replays whose one child has
\* two replays and no child ends with those two yielded, and the walk of
\* a group without children and replays with nothing yielded.
C16_OnlyTheSubtreeOnce ==
    /\ Yielded \subseteq AllReplays
    /\ \A i, j \in 1..Len(yielded) : i # j => yielded[i] # yielded[j]
    /\ (/\ WalkDone
        /\ Len(world.children[1]) = 1
        /\ world.replays[1] = 0
        /\ world.children[world.children[1][1]] = <<>>
        /\ world.replays[world.children[1][1]] = 2) =>
          /\ Len(yielded) = 2
          /\ Yielded = {ReplayOf(world.children[1][1], 1),
                        ReplayOf(world.children[1][1], 2)}
    /\ (WalkDone /\ world.children[1] = <<>> /\ world.replays[1] = 0) =>
          yielded = <<>>

\* The walk of a root without replays has ended with the two replays of
\* its child yielded, and not the replay of group 3, no descendant of it.
C16_Witness ==
    /\ WalkDone
    /\ world.replays = <<0, 2, 1>>
    /\ yielded = <<2001, 2002>>

----------------------------------------------------------------------------
\* download_group(1, "out", recursive) on a tree of groups whose root is
\* group 1, with the folder "out" on the disk, and in it a folder of the
\* root group or none.

Out == <<"out">>

Downloading(group_id, folder, recursive) ==
    [name |-> "download_group", state |-> "running", value |-> None,
     count |-> 0, recursive |-> recursive, folder |-> Join(folder, group_id)]

InitDownload ==
    /\ InitApi(None, "regular")
    /\ InitRequest
    /\ InitNoEq
    /\ world \in Trees
    /\ disk \in {Disk({Out}, {}), Disk({Out, Join(Out, 1)}, {})}
    /\ yielded = <<>>
    /\ pages = <<>>
    /\ \E recursive \in BOOLEAN :
          /\ op = Downloading(1, Out, recursive)
          /\ stack = IF recursive THEN <<download_group(1, Out)>>
                                  ELSE <<get_group_replays(1, FALSE)>>

NextDownload ==
    \/ MakeDirs
    \/ ListHead
    \/ PageConnectionError
    \/ AttemptTimeoutError
    \/ Respond
    \/ ListPage
    \/ NextChild
    \/ DownloadChild
    \/ GroupsPageDone
    \/ WalkReplays
    \/ DownloadReplays
    \/ Download
    \/ WriteFile
    \/ Exhausted
    \/ ListRaise

SpecDownload == InitDownload /\ [][NextDownload]_vars

\* C17: once a request of the walk or of the download has failed, the one
\* step that follows ends the operation with that error, whatever the
\* depth of the group: its frames are all gone, no replay is handed on, no
\* folder or file is made, and no request is made or tried.
C17_FailureAbortsTheWalk ==
    [][pc = "raised" =>
          /\ stack' = <<>>
          /\ op'.state = "raised"
          /\ op'.value = result
          /\ yielded' = yielded
          /\ disk' = disk
          /\ pages' = pages
          /\ UNCHANGED <<reqVars, attempts, sent>>]_vars

\* The recursive download of the root with the children 2 and 3 has
\* ended with the TimeoutError of the request for the replays of group 2,
\* after group 4, a child of 2, was downloaded.
C17_Witness ==
    /\ op.name = "download_group"
    /\ op.recursive
    /\ op.state = "raised"
    /\ IsError(op.value, "TimeoutError")
    /\ yielded = <<4001>>
    /\ disk.files = {File(<<"out", 1, 2, 4>>, 4001)}
    /\ Len(pages) = 5
    /\ ReqGroup(5) = 2

\* The group of which g is a child, and the folder of g under "out".
Parent(g) ==
    CHOOSE h \in DOMAIN world.children :
        \E i \in 1..Len(world.children[h]) : world.children[h][i] = g

RECURSIVE FolderOf(_)
FolderOf(g) == IF g = 1 THEN Join(Out, 1) ELSE Join(FolderOf(Parent(g)), g)

\* C18: after a recursive download that has ended without an error, the
\* folders are "out" and one for each group of the subtree, nested along
\* the path of the group; every replay of every group of the subtree has
\* its file in the folder of its group; and no file is in another folder.
C18_EveryReplayInItsFolder ==
    (op.name = "download_group" /\ op.recursive /\ op.state = "returned") =>
        /\ disk.dirs = {Out} \cup {FolderOf(h) : h \in Subtree(1)}
        /\ \A h \in Subtree(1) :
              \A i \in 1..world.replays[h] :
                  File(FolderOf(h), ReplayOf(h, i)) \in disk.files
        /\ \A f \in disk.files : f.folder = FolderOf(GroupOf(f.name[1]))

\* C19: a download that is not recursive, begun with no folder of the
\* group in "out", does not fail for the lack of a folder, and when it has
\* ended without an error the files are those of the replays that
\* get_group_replays handed on, all in the folder of the root group, and
\* no folder was made for a child group.
C19_FlatDownload ==
    (/\ op.name = "download_group"
     /\ ~op.recursive
     /\ op.folder \notin disk.dirs
     /\ op.state # "running") =>
        /\ op.state = "raised" => ~IsError(op.value, "FileNotFoundError")
        /\ op.state = "returned" =>
              /\ disk.files = {File(op.folder, yielded[i]) : i \in 1..Len(yielded)}
              /\ \A h \in Descendants(1) : FolderOf(h) \notin disk.dirs

----------------------------------------------------------------------------
\* models.Replay: identity, __eq__.

ReplayModel(id, match_guid) ==
    [class |-> "Replay", id |-> id, match_guid |-> match_guid]

Replays ==
    {ReplayModel(Str(i), g) :
        i \in {"id1", "id2", "id3"}, g \in {None, Str("guid1"), Str("guid2")}}

\* A value that is no Replay.
NotAReplay == [class |-> "str", id |-> None, match_guid |-> None]

Replay_eq_IdOnly(self, other) ==
    IF other.class # "Replay"
    THEN Exception("ValueError", [message |-> "Must be a ballchasing replay"])
    ELSE Bool(self.id = other.id)

\* Replay.__eq__
Replay_eq(self, other) ==
    IF other.class # "Replay"
    THEN Exception("ValueError", [message |-> "Must be a ballchasing replay"])
    ELSE IF self.match_guid = other.match_guid THEN Bool(TRUE)
    ELSE IF self.id = other.id THEN Bool(TRUE)
    ELSE Bool(FALSE)

InitEq ==
    /\ InitApi(None, "regular")
    /\ InitRequest
    /\ InitNoOp
    /\ eq_self \in Replays
    /\ eq_other \in Replays \cup {NotAReplay}
    /\ eq_result = None
    /\ InitNoList

\* eq_self == eq_other is evaluated.
Compare ==
    /\ eq_result = None
    /\ eq_result' = Replay_eq(eq_self, eq_other)
    /\ UNCHANGED <<apiVars, reqVars, obsVars, op, eq_self, eq_other, listVars>>

NextEq == Compare

SpecEq == InitEq /\ [][NextEq]_vars

\* C6: when the two replays do not both have a match_guid, they are equal
\* exactly when their ids are equal.
C6_FallsBackToId ==
    (/\ eq_result.kind = "bool"
     /\ (eq_self.match_guid = None \/ eq_other.match_guid = None)) =>
        (eq_result.v <=> eq_self.id = eq_other.id)

\* C7: two replays with equal match_guids, neither None, compare equal,
\* whatever their ids.
C7_SameGuidIsEqual ==
    (/\ eq_result # None
     /\ eq_other.class = "Replay"
     /\ eq_self.match_guid # None
     /\ eq_self.match_guid = eq_other.match_guid) =>
        eq_result = Bool(TRUE)

\* Two replays with the same match_guid and different ids were compared.
C7_Witness ==
    /\ eq_result = Bool(TRUE)
    /\ eq_self.match_guid = Str("guid1")
    /\ eq_other.match_guid = Str("guid1")
    /\ eq_self.id = Str("id1")
    /\ eq_other.id = Str("id2")

----------------------------------------------------------------------------
\* models.Replay: __hash__, and three replays compared with each other.

\* `if self.match_guid:`
Truthy(v) == v # None /\ v # Str("")

\* Replay.__hash__: the hash of a text stands for the text, so that equal
\* hashes are equal keys.
Replay_hash(self) ==
    IF Truthy(self.match_guid) THEN self.match_guid ELSE self.id

InitDedup ==
    /\ InitApi(None, "regular")
    /\ InitRequest
    /\ InitNoOp
    /\ eq_self \in [a : Replays, b : Replays, c : Replays]
    /\ eq_other = None
    /\ eq_result = None
    /\ InitNoList

\* a == b, b == c, a == c and the three hashes are evaluated.
CompareThree ==
    /\ eq_result = None
    /\ eq_result' =
          [ab |-> Replay_eq(eq_self.a, eq_self.b),
           bc |-> Replay_eq(eq_self.b, eq_self.c),
           ac |-> Replay_eq(eq_self.a, eq_self.c),
           hash |-> [a |-> Replay_hash(eq_self.a),
                     b |-> Replay_hash(eq_self.b),
                     c |-> Replay_hash(eq_self.c)]]
    /\ UNCHANGED <<apiVars, reqVars, obsVars, op, eq_self, eq_other, listVars>>

NextDedup == CompareThree

SpecDedup == InitDedup /\ [][NextDedup]_vars

\* C23: replays that compare equal have equal hashes, and two replays
\* that both equal a third equal each other.
C23_EqualityDeduplicates ==
    eq_result # None =>
        /\ eq_result.ab.v => eq_result.hash.a = eq_result.hash.b
        /\ (eq_result.ab.v /\ eq_result.bc.v) => eq_result.ac.v

====
